---- MODULE Spec2Model ----
(***************************************************************************)
(* ChainWatch backend: the sliding-window rate limiter                     *)
(* (app/core/rate_limiter.py) and the agent scheduler                      *)
(* (app/core/scheduler.py) with the agent table it reads and writes        *)
(* (app/core/database.py, app/api/endpoints/agents.py).                    *)
(*                                                                         *)
(* Time is a discrete clock `now`, in seconds.  The limiter is explored    *)
(* with a clock that advances RateClockStep seconds at a time, the         *)
(* scheduler with one that advances SchedClockStep seconds at a time.      *)
(***************************************************************************)
EXTENDS Integers, Sequences, FiniteSets, TLC

----------------------------------------------------------------------------
(* Bounds of the model *)

\* the limiter's clock: step and last value
RateClockStep == 20
RateMaxTime == 120
\* number of acquire() calls made over a behaviour
MaxAcquires == 4
\* settings.BITSCRUNCH_RATE_LIMIT_PER_MINUTE as configured for the run
PerMinuteLimit == 2

\* the scheduler's clock: step and last value
SchedClockStep == 300
SchedMaxTime == 600
\* number of agents in the agents table
NumAgents == 2
\* settings.MAX_CONCURRENT_AGENTS as configured for the run
MaxConcurrentAgents == 1
\* largest error_count the model lets an agent reach
MaxErrorCount == 3
\* largest number of alert events one execute_plan call returns
MaxEvents == 2

\* largest number of conditions in a plan
MaxConditions == 2
\* largest number of transfers the token fetches of one cycle return
MaxTransfers == 2
\* number of cycles the executor is followed for
MaxCycles == 1

(* Program constants *)

\* settings.AGENT_CHECK_INTERVAL
AgentCheckInterval == 300
\* Agent.max_retries column default
MaxRetries == 3
\* Agent.schedule_interval column default
DefaultInterval == 300

\* cutoff_time = current_time - 60
MinuteWindow == 60
\* cutoff_time = current_time - 3600
HourWindow == 3600
\* limits["gemini"]
GeminiPerMinute == 60
GeminiPerHour == 1000
\* "Keep only last 100 requests"
MaxRecorded == 100

None == -1

Callers == {"c1", "c2", "c3"}
Services == {"bitscrunch", "gemini"}

\* rows of the agents table, by id
Agents == 1..NumAgents
\* pipeline executions: the scheduler's task for agent a is pipeline a,
\* the run_agent_once call in flight is the pipeline above them
SchedPipes == Agents
ManualPipes == {NumAgents + 1}
Pipes == SchedPipes \cup ManualPipes
\* the agents that requests from outside (run, pause, resume, update) name
Addressed == {1}
\* values of Agent.status (AgentUpdate.status pattern)
Statuses == {"active", "paused", "triggered", "error"}
\* values of schedule_interval that update_agent is given
ScheduleIntervals == {300, 600}

VARIABLES
    now,                  \* time.time() / datetime.utcnow()
    enable_rate_limiting, \* settings.ENABLE_RATE_LIMITING
    request_times,        \* RateLimiter.request_times: service -> deque of timestamps
    locks,                \* RateLimiter.locks: service -> holder of the Semaphore(1), or "free"
    rl_pc,                \* position of each caller of acquire()
    rl_svc,               \* service_name argument of the caller's acquire()
    rl_ct,                \* current_time local of _wait_for_rate_limit
    rl_wake,              \* time at which the caller's asyncio.sleep ends
    rl_calls,             \* number of acquire() calls made so far
    rl_history,           \* history: service -> every timestamp _record_request
                          \* has appended, none removed
    rl_remaining,         \* what the last get_remaining_requests call returned
    status,               \* Agent.status
    schedule_interval,    \* Agent.schedule_interval
    last_run_at,          \* Agent.last_run_at (None: NULL)
    next_run_at,          \* Agent.next_run_at (None: NULL)
    error_count,          \* Agent.error_count
    last_error,           \* Agent.last_error (None: NULL)
    is_running,           \* AgentScheduler.is_running
    loop_pc,              \* position of the _scheduler_loop task
    loop_wake,            \* time at which the loop's asyncio.sleep ends
    agents_to_run,        \* agents_to_run of the current cycle
    permits,              \* value of AgentScheduler.semaphore
    p_pc,                 \* position of each pipeline execution
    p_agent,              \* agent.id of the pipeline
    p_start,              \* start_time local of _process_agent
    p_interval,           \* agent.schedule_interval read by _update_agent_run_time
    p_err_count,          \* agent.error_count read by _increment_agent_error_count
    p_status,             \* agent.status read by _increment_agent_error_count
    p_alerts,             \* the cycle's alerts: "none", "raised" by execute_plan,
                          \* "handled" by _handle_alerts, "dropped" when
                          \* analysis_result is not a success, "rejected" /
                          \* "unbound" when _handle_alerts raised
    p_fetch_failed,       \* whether the fetches of the pipeline's execute_plan failed
    p_events,             \* len(alerts) of the pipeline's execution_result
    p_dispatched,         \* dispatch_alert calls made by the pipeline's _handle_alerts
    p_delivered,          \* of these, the calls whose Telegram send succeeded
    fetch_failures,       \* history: the agent's consecutive finished pipeline
                          \* executions whose fetches failed (up to MaxRetries);
                          \* None where the history is not kept
    alerts_generated,     \* AgentScheduler.stats["alerts_generated"]; None where
                          \* the statistics are not followed
    alerts_committed,     \* number of rows of the alerts table; None likewise
    loop_tasks,           \* number of _scheduler_loop tasks created and not done
    call_result,          \* what the last start(), stop() or run_agent_once()
                          \* call did ("none" before the first call);
                          \* "not_followed" where the calls are not followed
    ev_plan,              \* structured_plan["conditions"] of a wallet_monitor agent
    ev_data,              \* the transfers its last execute_plan fetched
    ev_alerts,            \* results["alerts"] of its last execute_plan
    ev_cycle,             \* number of execute_plan calls made for the agent
    ev_previous,          \* data of earlier cycles kept for the agent's target,
                          \* as a list (empty: nothing is kept)
    dp_plan,              \* structured_plan of the parse_mission call of a deploy
                          \* request, as a list (empty: no request yet)
    dp_response,          \* APIResponse.success of deploy_agent ("none" before)
    dp_agent,             \* structured_plan of the Agent row it created, as a
                          \* list (empty: no row)
    dp_result             \* execution_result["success"] of the row's first
                          \* execute_plan ("none" before)

rlvars == <<enable_rate_limiting, request_times, locks, rl_pc, rl_svc, rl_ct,
            rl_wake, rl_calls, rl_history, rl_remaining>>

storevars == <<status, schedule_interval, last_run_at, next_run_at,
               error_count, last_error>>

loopvars == <<is_running, loop_tasks, loop_pc, loop_wake, agents_to_run, permits>>

pipevars == <<p_pc, p_agent, p_start, p_interval, p_err_count, p_status,
              p_alerts, p_fetch_failed, p_events, p_dispatched, p_delivered>>

statvars == <<alerts_generated, alerts_committed>>

schedvars == <<storevars, loopvars, pipevars, fetch_failures, statvars,
               call_result>>

evvars == <<ev_plan, ev_data, ev_alerts, ev_cycle, ev_previous>>

dpvars == <<dp_plan, dp_response, dp_agent, dp_result>>

vars == <<now, rlvars, schedvars, evvars, dpvars>>

----------------------------------------------------------------------------
(* RateLimiter *)

\* self.limits: per_minute / per_hour of a service, 0 where the key is absent
\* (the per_month key of bitscrunch is never read)
limits(s) ==
    IF s = "bitscrunch"
    THEN [per_minute |-> PerMinuteLimit, per_hour |-> 0]
    ELSE [per_minute |-> GeminiPerMinute, per_hour |-> GeminiPerHour]

\* while request_times and request_times[0] < cutoff_time: popleft()
RECURSIVE PurgeOld(_, _)
PurgeOld(q, cutoff) ==
    IF q # <<>> /\ Head(q) < cutoff THEN PurgeOld(Tail(q), cutoff) ELSE q

\* [t for t in request_times if t >= cutoff]
RECURSIVE RequestsSince(_, _)
RequestsSince(q, cutoff) ==
    IF q = <<>> THEN <<>>
    ELSE IF Head(q) >= cutoff THEN <<Head(q)>> \o RequestsSince(Tail(q), cutoff)
         ELSE RequestsSince(Tail(q), cutoff)

\* a minute check that never makes the caller sleep
MinuteWait_Never(q, ct, per_minute) == 0

\* wait_time of the minute check, 0 when the caller does not sleep
MinuteWait(q, ct, per_minute) ==
    IF per_minute # 0 /\ Len(q) >= per_minute
    THEN LET w == MinuteWindow - (ct - Head(q)) IN IF w > 0 THEN w ELSE 0
    ELSE 0

\* wait_time of the hour check, 0 when the caller does not sleep
HourWait(q, ct, per_hour) ==
    LET hour_requests == RequestsSince(q, ct - HourWindow) IN
    IF per_hour # 0 /\ Len(hour_requests) >= per_hour
    THEN LET w == HourWindow - (ct - Head(hour_requests)) IN IF w > 0 THEN w ELSE 0
    ELSE 0

\* _record_request: append the timestamp, keep the last MaxRecorded entries
RecordRequest(q, t) ==
    LET q2 == Append(q, t) IN
    IF Len(q2) > MaxRecorded THEN Tail(q2) ELSE q2

\* get_remaining_requests(service)["per_minute_remaining"]
PerMinuteRemaining(s) ==
    LET minute_requests == RequestsSince(request_times[s], now - MinuteWindow)
        left == limits(s).per_minute - Len(minute_requests)
    IN IF left > 0 THEN left ELSE 0

\* no get_remaining_requests call has returned yet
NoAnswer ==
    [service |-> "none", per_minute_remaining |-> None,
     per_hour_remaining |-> None]

\* get_remaining_requests(service)["per_hour_remaining"]
PerHourRemaining(s) ==
    LET hour_requests == RequestsSince(request_times[s], now - HourWindow)
        left == limits(s).per_hour - Len(hour_requests)
    IN IF left > 0 THEN left ELSE 0

\* get_remaining_requests that cleans the deque it counts
RLGetRemaining_Cleans(s) ==
    /\ rl_remaining' = [service |-> s,
                        per_minute_remaining |-> PerMinuteRemaining(s),
                        per_hour_remaining |-> PerHourRemaining(s)]
    /\ request_times' = [request_times EXCEPT
                            ![s] = PurgeOld(@, now - MinuteWindow)]
    /\ UNCHANGED <<now, enable_rate_limiting, locks, rl_pc, rl_svc, rl_ct,
                   rl_wake, rl_calls, rl_history, schedvars, evvars, dpvars>>

\* get_remaining_requests(service_name): the two counts are taken over
\* filtered copies of the deque; the call has no await and takes no lock
RLGetRemaining(s) ==
    /\ rl_remaining' = [service |-> s,
                        per_minute_remaining |-> PerMinuteRemaining(s),
                        per_hour_remaining |-> PerHourRemaining(s)]
    /\ UNCHANGED <<now, enable_rate_limiting, request_times, locks, rl_pc,
                   rl_svc, rl_ct, rl_wake, rl_calls, rl_history, schedvars,
                   evvars, dpvars>>

\* acquire that does not look at the setting
EnableRateLimiting_Ignored == TRUE

\* settings.ENABLE_RATE_LIMITING as acquire reads it
EnableRateLimiting == enable_rate_limiting

\* acquire(service_name): returns at once when rate limiting is disabled,
\* otherwise queues on the service's lock
RLAcquire(c, s) ==
    /\ rl_pc[c] = "idle"
    /\ rl_calls < MaxAcquires
    /\ rl_calls' = rl_calls + 1
    /\ IF ~EnableRateLimiting
       THEN UNCHANGED <<rl_pc, rl_svc>>
       ELSE /\ rl_pc' = [rl_pc EXCEPT ![c] = "wait_lock"]
            /\ rl_svc' = [rl_svc EXCEPT ![c] = s]
    /\ UNCHANGED <<now, enable_rate_limiting, request_times, locks, rl_ct, rl_wake,
                   rl_history, rl_remaining, schedvars, evvars, dpvars>>

\* the tail of _wait_for_rate_limit from the hour check on, then
\* _record_request and the release of the lock; q is the deque after the
\* minute check
RLHourCheckAndRecord(c, s, q, ct) ==
    LET hw == HourWait(q, ct, limits(s).per_hour) IN
    IF hw > 0
    THEN /\ request_times' = [request_times EXCEPT ![s] = q]
         /\ rl_pc' = [rl_pc EXCEPT ![c] = "sleep_hour"]
         /\ rl_wake' = [rl_wake EXCEPT ![c] = now + hw]
         /\ locks' = [locks EXCEPT ![s] = c]
         /\ UNCHANGED rl_history
    ELSE /\ request_times' = [request_times EXCEPT ![s] = RecordRequest(q, now)]
         /\ rl_history' = [rl_history EXCEPT ![s] = Append(@, now)]
         /\ rl_pc' = [rl_pc EXCEPT ![c] = "idle"]
         /\ rl_wake' = [rl_wake EXCEPT ![c] = None]
         /\ locks' = [locks EXCEPT ![s] = "free"]

\* a lock that lets every caller in
LockFree_Shared(s) == TRUE

\* self.locks[service_name], a Semaphore of value 1 made per service on
\* first use, can be entered
LockFree(s) == locks[s] = "free"

\* async with self.locks[service_name]: the caller gets the lock and runs
\* _wait_for_rate_limit up to its first sleep, or through to the record
RLEnter(c) ==
    /\ rl_pc[c] = "wait_lock"
    /\ LockFree(rl_svc[c])
    /\ LET s == rl_svc[c]
           ct == now
           q == IF limits(s).per_minute # 0
                THEN PurgeOld(request_times[s], ct - MinuteWindow)
                ELSE request_times[s]
           mw == MinuteWait(q, ct, limits(s).per_minute)
       IN /\ rl_ct' = [rl_ct EXCEPT ![c] = ct]
          /\ IF mw > 0
             THEN /\ request_times' = [request_times EXCEPT ![s] = q]
                  /\ rl_pc' = [rl_pc EXCEPT ![c] = "sleep_minute"]
                  /\ rl_wake' = [rl_wake EXCEPT ![c] = ct + mw]
                  /\ locks' = [locks EXCEPT ![s] = c]
                  /\ UNCHANGED rl_history
             ELSE RLHourCheckAndRecord(c, s, q, ct)
    /\ UNCHANGED <<now, enable_rate_limiting, rl_svc, rl_calls, rl_remaining,
                   schedvars, evvars, dpvars>>

\* asyncio.sleep(wait_time) is over.  After the minute sleep:
\* request_times.popleft(), then the hour check with the current_time read
\* before the sleep.  After the hour sleep: _record_request and release.
RLWake(c) ==
    /\ rl_pc[c] \in {"sleep_minute", "sleep_hour"}
    /\ now >= rl_wake[c]
    /\ IF rl_pc[c] = "sleep_minute"
       THEN RLHourCheckAndRecord(c, rl_svc[c], Tail(request_times[rl_svc[c]]),
                                 rl_ct[c])
       ELSE /\ request_times' = [request_times EXCEPT
                                    ![rl_svc[c]] = RecordRequest(@, now)]
            /\ rl_history' = [rl_history EXCEPT ![rl_svc[c]] = Append(@, now)]
            /\ rl_pc' = [rl_pc EXCEPT ![c] = "idle"]
            /\ rl_wake' = [rl_wake EXCEPT ![c] = None]
            /\ locks' = [locks EXCEPT ![rl_svc[c]] = "free"]
    /\ UNCHANGED <<now, enable_rate_limiting, rl_svc, rl_ct, rl_calls,
                   rl_remaining, schedvars, evvars, dpvars>>

\* the clock advances
RLTick ==
    /\ now + RateClockStep <= RateMaxTime
    /\ now' = now + RateClockStep
    /\ UNCHANGED <<rlvars, schedvars, evvars, dpvars>>

----------------------------------------------------------------------------
(* The agents table and the scheduler's initial state *)

\* deploy_agent: status="active", the column defaults for the rest; `act`
\* are the agents that are active, the others have been paused
InitAgents(act) ==
    /\ status = [a \in Agents |-> IF a \in act THEN "active" ELSE "paused"]
    /\ schedule_interval = [a \in Agents |-> DefaultInterval]
    /\ last_run_at = [a \in Agents |-> None]
    /\ next_run_at = [a \in Agents |-> None]
    /\ error_count = [a \in Agents |-> 0]
    /\ last_error = [a \in Agents |-> "null"]

\* AgentScheduler.__init__; `hist` are the agents whose fetch history is kept
InitScheduler(hist) ==
    /\ is_running = FALSE
    /\ loop_tasks = 0
    /\ loop_pc = "stopped"
    /\ loop_wake = None
    /\ agents_to_run = {}
    /\ permits = MaxConcurrentAgents
    /\ p_pc = [p \in Pipes |-> "idle"]
    /\ p_agent = [p \in Pipes |-> IF p \in SchedPipes THEN p ELSE None]
    /\ p_start = [p \in Pipes |-> None]
    /\ p_interval = [p \in Pipes |-> None]
    /\ p_err_count = [p \in Pipes |-> None]
    /\ p_status = [p \in Pipes |-> "none"]
    /\ p_alerts = [p \in Pipes |-> "none"]
    /\ p_fetch_failed = [p \in Pipes |-> FALSE]
    /\ p_events = [p \in Pipes |-> 0]
    /\ p_dispatched = [p \in Pipes |-> 0]
    /\ p_delivered = [p \in Pipes |-> 0]
    /\ fetch_failures = [a \in Agents |-> IF a \in hist THEN 0 ELSE None]

\* self.stats and the alerts table at construction, and no call made yet;
\* they are followed from there on where `followed` is true
InitStats(followed) ==
    /\ alerts_generated = IF followed THEN 0 ELSE None
    /\ alerts_committed = IF followed THEN 0 ELSE None
    /\ call_result = IF followed THEN "none" ELSE "not_followed"

\* no deploy request has been made
InitDeploy ==
    /\ dp_plan = <<>>
    /\ dp_response = "none"
    /\ dp_agent = <<>>
    /\ dp_result = "none"

InitRate ==
    /\ now = 0
    /\ enable_rate_limiting \in BOOLEAN
    /\ request_times = [s \in Services |-> <<>>]
    /\ locks = [s \in Services |-> "free"]
    /\ rl_pc = [c \in Callers |-> "idle"]
    /\ rl_svc = [c \in Callers |-> "bitscrunch"]
    /\ rl_ct = [c \in Callers |-> 0]
    /\ rl_wake = [c \in Callers |-> None]
    /\ rl_calls = 0
    /\ rl_history = [s \in Services |-> <<>>]
    /\ rl_remaining = NoAnswer
    /\ InitAgents(Agents)
    /\ InitScheduler({})
    /\ ev_plan = <<>>
    /\ ev_data = <<>>
    /\ ev_alerts = <<>>
    /\ ev_cycle = 0
    /\ ev_previous = <<>>
    /\ InitDeploy
    /\ InitStats(FALSE)

NextRate ==
    \/ \E c \in Callers, s \in Services : RLAcquire(c, s)
    \/ \E c \in Callers : RLEnter(c)
    \/ \E c \in Callers : RLWake(c)
    \/ RLTick

SpecRate == InitRate /\ [][NextRate]_vars

----------------------------------------------------------------------------
(* AgentScheduler: selection *)

\* _get_agents_to_run without the error_count < max_retries filter
GetAgentsToRun_NoCeiling(t) ==
    {a \in Agents :
        /\ status[a] = "active"
        /\ \/ last_run_at[a] = None
           \/ (next_run_at[a] # None /\ next_run_at[a] <= t)}

\* _get_agents_to_run that takes an agent only after its next_run_at
GetAgentsToRun_StrictlyAfter(t) ==
    {a \in Agents :
        /\ status[a] = "active"
        /\ \/ last_run_at[a] = None
           \/ (next_run_at[a] # None /\ next_run_at[a] < t)
        /\ error_count[a] < MaxRetries}

\* _get_agents_to_run at current_time t: status == "active", never run or
\* next_run_at <= t (a NULL next_run_at compares as not true), and
\* error_count < max_retries
GetAgentsToRun(t) ==
    {a \in Agents :
        /\ status[a] = "active"
        /\ \/ last_run_at[a] = None
           \/ (next_run_at[a] # None /\ next_run_at[a] <= t)
        /\ error_count[a] < MaxRetries}

\* _process_agent started without waiting for a permit
SemaphoreFree_NoWait == TRUE

\* async with self.semaphore: a permit is available
SemaphoreFree == permits > 0

\* next_run computed without the interval
NextRun_NoInterval(run_time, interval) == run_time

\* next_run = run_time + timedelta(seconds=agent.schedule_interval)
NextRun(run_time, interval) == run_time + interval

\* structured_plan["action_type"] of the agent
action_type(a) == IF a = 2 THEN "wallet_monitor" ELSE "collection_monitor"

\* what one execute_plan call meets: the fetches succeed and no condition
\* fires, the fetches succeed and a condition fires, the fetches fail, or
\* checking a condition raises
Outcomes == {"no_alerts", "alerts", "fetch_error", "eval_error"}

\* execute_plan: _execute_wallet_monitoring catches each fetch's exception
\* and goes on with empty data, the other executors let it reach their
\* outer handler, which returns success = False
ExecutePlan(a, o) ==
    IF o = "eval_error" THEN [success |-> FALSE, alerts |-> FALSE]
    ELSE IF o = "fetch_error"
         THEN [success |-> action_type(a) = "wallet_monitor", alerts |-> FALSE]
         ELSE [success |-> TRUE, alerts |-> o = "alerts"]

\* what the alert branch of _process_agent meets: generate_analysis fails,
\* _handle_alerts commits, or _handle_alerts raises
AlertOutcomes == {"analysis_failed", "handled", "handle_error"}

\* the alert branch without its _update_agent_status call
StatusAfterAlerts_NoWrite(o, st) == st

\* the status the alert branch leaves: "triggered" after _handle_alerts,
\* the agent's status as it is otherwise
StatusAfterAlerts(o, st) == IF o = "handled" THEN "triggered" ELSE st

\* len(structured_plan["conditions"]) of the agent: each condition adds at
\* most one alert to the cycle's list
NumConditions(a) == IF a = 2 THEN MaxEvents ELSE 1

\* results of the Telegram sends of a cycle's k events (TRUE: sent)
Deliveries(k) == [1..k -> BOOLEAN]

\* the first of the events 1..k whose send succeeded, 0 when none did
FirstDelivered(k, d) ==
    IF \E i \in 1..k : d[i]
    THEN CHOOSE i \in 1..k : d[i] /\ \A j \in 1..(i - 1) : ~d[j]
    ELSE 0

\* _handle_alerts where a failed send raises out of dispatch_alert
HandleAlertsResult_SendRaises(k, d, o, binds) ==
    IF \E i \in 1..k : ~d[i]
    THEN [dispatched |-> CHOOSE i \in 1..k : ~d[i] /\ \A j \in 1..(i - 1) : d[j],
          delivered |-> 0, result |-> "send_raised"]
    ELSE [dispatched |-> k, delivered |-> k, result |-> "handled"]

\* _handle_alerts over k events: per event an Alert row is added and
\* flushed, then dispatch_alert is called once; a failed send is returned,
\* never raised.  A sent alert gets sent_at = loop.time(), a float in a
\* DateTime column: where the database driver refuses to bind it (binds
\* FALSE) the next flush or the commit raises, the rows are rolled back and
\* the events after it are not dispatched.  o = "handle_error": the store
\* rejects the first row at its flush.
HandleAlertsResult(k, d, o, binds) ==
    IF o = "handle_error"
    THEN [dispatched |-> 0, delivered |-> 0, result |-> "rejected"]
    ELSE IF FirstDelivered(k, d) # 0 /\ ~binds
         THEN [dispatched |-> FirstDelivered(k, d), delivered |-> 1,
               result |-> "unbound"]
         ELSE [dispatched |-> k,
               delivered |-> Cardinality({i \in 1..k : d[i]}),
               result |-> "handled"]

\* new_status that never reaches "error"
NewStatus_NeverError(new_error_count, read_status) == read_status

\* new_status of _increment_agent_error_count
NewStatus(new_error_count, read_status) ==
    IF new_error_count >= MaxRetries THEN "error" ELSE read_status

\* leaving `async with self.semaphore` without giving the permit back
ReleasePermit_Leak(p) == permits

\* every pipeline gives a permit back, also one that took none
ReleasePermit_Always(p) == permits + 1

\* the semaphore's value when pipeline p returns or raises: a scheduled one
\* leaves `async with self.semaphore`, a manual one holds no permit
ReleasePermit(p) == IF p \in SchedPipes THEN permits + 1 ELSE permits

\* sched pipelines that hold a permit of the semaphore
HoldsPermit(p) == p \in SchedPipes /\ p_pc[p] \notin {"idle", "wait_sem"}

----------------------------------------------------------------------------
(* AgentScheduler: one pipeline execution (_process_agent) *)

\* the result of a call, where the calls are followed
Result(r) == IF call_result = "not_followed" THEN "not_followed" ELSE r

\* the pipeline is over: its locals go, a scheduled one releases its permit
Finish(p) ==
    /\ p_pc' = [p_pc EXCEPT ![p] = "idle"]
    /\ p_agent' = [p_agent EXCEPT ![p] = IF p \in SchedPipes THEN p ELSE None]
    /\ p_start' = [p_start EXCEPT ![p] = None]
    /\ p_interval' = [p_interval EXCEPT ![p] = None]
    /\ p_err_count' = [p_err_count EXCEPT ![p] = None]
    /\ p_status' = [p_status EXCEPT ![p] = "none"]
    /\ p_alerts' = [p_alerts EXCEPT ![p] = "none"]
    /\ p_fetch_failed' = [p_fetch_failed EXCEPT ![p] = FALSE]
    /\ p_events' = [p_events EXCEPT ![p] = 0]
    /\ p_dispatched' = [p_dispatched EXCEPT ![p] = 0]
    /\ p_delivered' = [p_delivered EXCEPT ![p] = 0]
    /\ permits' = ReleasePermit(p)

\* _process_agent returns its result: the history of the agent's fetches
\* is brought up to date
Returns(p) ==
    /\ Finish(p)
    /\ fetch_failures' =
          [fetch_failures EXCEPT
              ![p_agent[p]] = IF @ = None THEN None
                              ELSE IF ~p_fetch_failed[p] THEN 0
                              ELSE IF @ < MaxRetries THEN @ + 1 ELSE @]

\* the except branch starts: _increment_agent_error_count reads the row
ReadForIncrement(p) ==
    /\ error_count[p_agent[p]] < MaxErrorCount
    /\ p_pc' = [p_pc EXCEPT ![p] = "inc_write"]
    /\ p_err_count' = [p_err_count EXCEPT ![p] = error_count[p_agent[p]]]
    /\ p_status' = [p_status EXCEPT ![p] = status[p_agent[p]]]

\* _process_agent_with_semaphore: the task gets a permit, _process_agent
\* reads start_time and _update_agent_run_time reads the agent row
BeginScheduled(p) ==
    /\ p \in SchedPipes
    /\ p_pc[p] = "wait_sem"
    /\ SemaphoreFree
    /\ permits' = permits - 1
    /\ p_pc' = [p_pc EXCEPT ![p] = "rt_write"]
    /\ p_start' = [p_start EXCEPT ![p] = now]
    /\ p_interval' = [p_interval EXCEPT ![p] = schedule_interval[p_agent[p]]]
    /\ UNCHANGED <<now, rlvars, evvars, dpvars, storevars, is_running, loop_tasks, loop_pc, loop_wake,
                   agents_to_run, p_agent, p_err_count, p_status, p_alerts,
                   p_fetch_failed, p_events, p_dispatched, p_delivered,
                   fetch_failures, statvars, call_result>>

\* run_agent_once(agent_id) for an existing agent: _process_agent without
\* the semaphore
RunAgentOnce(p, a) ==
    /\ p \in ManualPipes
    /\ p_pc[p] = "idle"
    /\ p_agent' = [p_agent EXCEPT ![p] = a]
    /\ p_pc' = [p_pc EXCEPT ![p] = "rt_write"]
    /\ p_start' = [p_start EXCEPT ![p] = now]
    /\ p_interval' = [p_interval EXCEPT ![p] = schedule_interval[a]]
    /\ call_result' = Result("found")
    /\ UNCHANGED <<now, rlvars, evvars, dpvars, storevars, loopvars, p_err_count, p_status,
                   p_alerts, p_fetch_failed, p_events, p_dispatched,
                   p_delivered, fetch_failures, statvars>>

\* a lookup that takes a permit of the semaphore and returns with it
RunAgentOnceMissing_TakesPermit ==
    /\ permits > 0
    /\ permits' = permits - 1
    /\ call_result' = Result("not_found")
    /\ UNCHANGED <<now, rlvars, evvars, dpvars, storevars, is_running,
                   loop_tasks, loop_pc, loop_wake, agents_to_run, pipevars,
                   fetch_failures, statvars>>

\* run_agent_once(agent_id) for an id that has no row: get_agent_with_user
\* returns None and the call returns {"success": False, "error": "Agent not
\* found"}
RunAgentOnceMissing ==
    /\ call_result' = Result("not_found")
    /\ UNCHANGED <<now, rlvars, evvars, dpvars, storevars, loopvars, pipevars,
                   fetch_failures, statvars>>

\* _update_agent_run_time commits last_run_at and next_run_at (start_time
\* and the row it read are not used after it)
RunTimeCommit(p) ==
    /\ p_pc[p] = "rt_write"
    /\ last_run_at' = [last_run_at EXCEPT ![p_agent[p]] = p_start[p]]
    /\ next_run_at' = [next_run_at EXCEPT
                          ![p_agent[p]] = NextRun(p_start[p], p_interval[p])]
    /\ p_pc' = [p_pc EXCEPT ![p] = "execute"]
    /\ p_start' = [p_start EXCEPT ![p] = None]
    /\ p_interval' = [p_interval EXCEPT ![p] = None]
    /\ UNCHANGED <<now, rlvars, evvars, dpvars, status, schedule_interval, error_count,
                   last_error, loopvars, p_agent, p_err_count, p_status,
                   p_alerts, p_fetch_failed, p_events, p_dispatched,
                   p_delivered, fetch_failures, statvars, call_result>>

\* tool_executor.execute_plan returns; k is the number of conditions that
\* fired when its outcome is "alerts"
Execute(p, o, k) ==
    /\ p_pc[p] = "execute"
    /\ k <= NumConditions(p_agent[p])
    /\ LET r == ExecutePlan(p_agent[p], o) IN
       /\ p_fetch_failed' = [p_fetch_failed EXCEPT ![p] = (o = "fetch_error")]
       /\ p_events' = [p_events EXCEPT ![p] = IF r.alerts THEN k ELSE 0]
       /\ p_alerts' = [p_alerts EXCEPT
                          ![p] = IF r.alerts THEN "raised" ELSE "none"]
       /\ IF r.success
          THEN /\ p_pc' = [p_pc EXCEPT
                              ![p] = IF r.alerts THEN "alerts" ELSE "reset"]
               /\ UNCHANGED <<p_err_count, p_status>>
          ELSE ReadForIncrement(p)
    /\ UNCHANGED <<now, rlvars, evvars, dpvars, storevars, loopvars, p_agent, p_start,
                   p_interval, p_dispatched, p_delivered, fetch_failures, statvars, call_result>>

\* a counter n raised by k, where the statistics are followed
Counted(n, k) == IF n = None THEN None ELSE n + k

\* the alert branch: generate_analysis, then _handle_alerts and
\* _update_agent_status(agent_id, "triggered"); d are the results of the
\* Telegram sends, binds whether the store takes the sent_at of a delivered
\* alert
HandleAlerts(p, o, d, binds) ==
    /\ p_pc[p] = "alerts"
    /\ IF o = "analysis_failed"
       THEN /\ p_pc' = [p_pc EXCEPT ![p] = "reset"]
            /\ p_alerts' = [p_alerts EXCEPT ![p] = "dropped"]
            /\ status' = [status EXCEPT ![p_agent[p]] = StatusAfterAlerts(o, @)]
            /\ UNCHANGED <<p_err_count, p_status, p_dispatched, p_delivered,
                           statvars>>
       ELSE LET r == HandleAlertsResult(p_events[p], d, o, binds) IN
            /\ p_dispatched' = [p_dispatched EXCEPT ![p] = r.dispatched]
            /\ p_delivered' = [p_delivered EXCEPT ![p] = r.delivered]
            /\ p_alerts' = [p_alerts EXCEPT ![p] = r.result]
            /\ alerts_generated' = Counted(alerts_generated, r.dispatched)
            /\ alerts_committed' =
                  Counted(alerts_committed,
                          IF r.result = "handled" THEN p_events[p] ELSE 0)
            /\ IF r.result = "handled"
               THEN /\ p_pc' = [p_pc EXCEPT ![p] = "reset"]
                    /\ status' = [status EXCEPT
                                     ![p_agent[p]] = StatusAfterAlerts(o, @)]
                    /\ UNCHANGED <<p_err_count, p_status>>
               ELSE /\ ReadForIncrement(p)
                    /\ UNCHANGED status
    /\ UNCHANGED <<now, rlvars, evvars, dpvars, schedule_interval, last_run_at, next_run_at,
                   error_count, last_error, loopvars, p_agent, p_start,
                   p_interval, p_fetch_failed, p_events, fetch_failures,
                   call_result>>

\* _reset_agent_error_count commits and the pipeline returns success
ResetErrorCount(p) ==
    /\ p_pc[p] = "reset"
    /\ error_count' = [error_count EXCEPT ![p_agent[p]] = 0]
    /\ last_error' = [last_error EXCEPT ![p_agent[p]] = "null"]
    /\ Returns(p)
    /\ UNCHANGED <<now, rlvars, evvars, dpvars, status, schedule_interval, last_run_at,
                   next_run_at, is_running, loop_tasks, loop_pc, loop_wake, agents_to_run,
                   statvars, call_result>>

\* _increment_agent_error_count commits and the pipeline returns failure
IncrementErrorCount(p) ==
    /\ p_pc[p] = "inc_write"
    /\ LET new_error_count == p_err_count[p] + 1 IN
       /\ error_count' = [error_count EXCEPT ![p_agent[p]] = new_error_count]
       /\ last_error' = [last_error EXCEPT ![p_agent[p]] = "error"]
       /\ status' = [status EXCEPT
                        ![p_agent[p]] = NewStatus(new_error_count, p_status[p])]
    /\ Returns(p)
    /\ UNCHANGED <<now, rlvars, evvars, dpvars, schedule_interval, last_run_at, next_run_at,
                   is_running, loop_tasks, loop_pc, loop_wake, agents_to_run,
                   statvars, call_result>>

\* _increment_agent_error_count raises (the store fails the UPDATE): the
\* exception leaves _process_agent from its except branch; gather keeps it
\* as the task's result, run_agent_once passes it to its caller
IncrementFails(p) ==
    /\ p_pc[p] = "inc_write"
    /\ Finish(p)
    /\ UNCHANGED <<now, rlvars, evvars, dpvars, storevars, is_running, loop_tasks, loop_pc, loop_wake,
                   agents_to_run, fetch_failures, statvars, call_result>>

----------------------------------------------------------------------------
(* AgentScheduler: start, stop and the loop *)

\* start() without its is_running test
Start_NoGuard ==
    /\ is_running' = TRUE
    /\ loop_tasks' = loop_tasks + 1
    /\ loop_pc' = "select"
    /\ call_result' = Result("started")
    /\ UNCHANGED <<now, rlvars, evvars, dpvars, storevars, loop_wake, agents_to_run, permits,
                   pipevars, fetch_failures, statvars>>

\* start(): returns at once when the scheduler is running, otherwise sets
\* the flag and creates the loop task
Start ==
    /\ IF is_running
       THEN /\ call_result' = Result("already_running")
            /\ UNCHANGED <<is_running, loop_tasks, loop_pc>>
       ELSE /\ is_running' = TRUE
            /\ loop_tasks' = loop_tasks + 1
            /\ loop_pc' = "select"
            /\ call_result' = Result("started")
    /\ UNCHANGED <<now, rlvars, evvars, dpvars, storevars, loop_wake, agents_to_run, permits,
                   pipevars, fetch_failures, statvars>>

\* stop() that sets the flag and cancels nothing
CancelledTasks_None == {}

\* the tasks that the cancellation of the loop task reaches through gather
CancelledTasks == SchedPipes

\* stop(): returns at once when the scheduler is not running; otherwise the
\* flag is cleared and the loop task is cancelled and awaited, and with it
\* the gather and every task of the cycle; a cancelled task leaves its
\* `async with` and gives its permit back
Stop ==
    IF ~is_running
    THEN /\ call_result' = Result("not_running")
         /\ UNCHANGED <<now, rlvars, evvars, dpvars, storevars, loopvars, pipevars,
                        fetch_failures, statvars>>
    ELSE /\ is_running' = FALSE
         /\ loop_tasks' = loop_tasks - 1
         /\ call_result' = Result("stopped")
         /\ loop_pc' = "stopped"
         /\ loop_wake' = None
         /\ agents_to_run' = {}
         /\ permits' = permits + Cardinality({p \in CancelledTasks : HoldsPermit(p)})
         /\ p_pc' = [p \in Pipes |-> IF p \in CancelledTasks THEN "idle" ELSE p_pc[p]]
         /\ p_start' = [p \in Pipes |->
                           IF p \in CancelledTasks THEN None ELSE p_start[p]]
         /\ p_interval' = [p \in Pipes |->
                              IF p \in CancelledTasks THEN None ELSE p_interval[p]]
         /\ p_err_count' = [p \in Pipes |->
                               IF p \in CancelledTasks THEN None ELSE p_err_count[p]]
         /\ p_status' = [p \in Pipes |->
                            IF p \in CancelledTasks THEN "none" ELSE p_status[p]]
         /\ p_alerts' = [p \in Pipes |->
                            IF p \in CancelledTasks THEN "none" ELSE p_alerts[p]]
         /\ p_fetch_failed' = [p \in Pipes |->
                                  IF p \in CancelledTasks THEN FALSE
                                  ELSE p_fetch_failed[p]]
         /\ p_events' = [p \in Pipes |->
                            IF p \in CancelledTasks THEN 0 ELSE p_events[p]]
         /\ p_dispatched' = [p \in Pipes |->
                                IF p \in CancelledTasks THEN 0 ELSE p_dispatched[p]]
         /\ p_delivered' = [p \in Pipes |->
                               IF p \in CancelledTasks THEN 0 ELSE p_delivered[p]]
         /\ UNCHANGED <<now, rlvars, evvars, dpvars, storevars, p_agent,
                        fetch_failures, statvars>>

\* top of a cycle: _get_agents_to_run, then one task per selected agent
\* handed to asyncio.gather, or the sleep when nothing is due
SelectAgents ==
    /\ loop_pc = "select"
    /\ is_running
    /\ agents_to_run' = GetAgentsToRun(now)
    /\ IF agents_to_run' # {}
       THEN /\ loop_pc' = "gather"
            /\ p_pc' = [p \in Pipes |->
                           IF p \in agents_to_run' THEN "wait_sem" ELSE p_pc[p]]
            /\ UNCHANGED loop_wake
       ELSE /\ loop_pc' = "sleep"
            /\ loop_wake' = now + AgentCheckInterval
            /\ UNCHANGED p_pc
    /\ UNCHANGED <<now, rlvars, evvars, dpvars, storevars, is_running, loop_tasks, permits, p_agent,
                   p_start, p_interval, p_err_count, p_status, p_alerts,
                   p_fetch_failed, p_events, p_dispatched, p_delivered,
                   fetch_failures, statvars, call_result>>

\* a gather that, once its tasks are done, queries again and goes on with
\* the agents that have become due
CycleDone_Reselects ==
    /\ loop_pc = "gather"
    /\ \A a \in agents_to_run : p_pc[a] = "idle"
    /\ agents_to_run' = GetAgentsToRun(now)
    /\ IF agents_to_run' # {}
       THEN /\ p_pc' = [p \in Pipes |->
                           IF p \in agents_to_run' THEN "wait_sem" ELSE p_pc[p]]
            /\ UNCHANGED <<loop_pc, loop_wake>>
       ELSE /\ loop_pc' = "sleep"
            /\ loop_wake' = now + AgentCheckInterval
            /\ UNCHANGED p_pc
    /\ UNCHANGED <<now, rlvars, evvars, dpvars, storevars, is_running, loop_tasks, permits,
                   p_agent, p_start, p_interval, p_err_count, p_status,
                   p_alerts, p_fetch_failed, p_events, p_dispatched,
                   p_delivered, fetch_failures, statvars, call_result>>

\* asyncio.gather returns: every task of the cycle is done; the loop goes
\* to sleep for AGENT_CHECK_INTERVAL
CycleDone ==
    /\ loop_pc = "gather"
    /\ \A a \in agents_to_run : p_pc[a] = "idle"
    /\ loop_pc' = "sleep"
    /\ loop_wake' = now + AgentCheckInterval
    /\ agents_to_run' = {}
    /\ UNCHANGED <<now, rlvars, evvars, dpvars, storevars, is_running, loop_tasks, permits, pipevars,
                   fetch_failures, statvars, call_result>>

\* a loop that goes to its next selection without sleeping
LoopWake_NoSleep ==
    /\ loop_pc = "sleep"
    /\ loop_pc' = "select"
    /\ loop_wake' = None
    /\ UNCHANGED <<now, rlvars, evvars, dpvars, storevars, is_running, loop_tasks, agents_to_run, permits,
                   pipevars, fetch_failures, statvars, call_result>>

\* the inter-cycle sleep is over
LoopWake ==
    /\ loop_pc = "sleep"
    /\ now >= loop_wake
    /\ loop_pc' = "select"
    /\ loop_wake' = None
    /\ UNCHANGED <<now, rlvars, evvars, dpvars, storevars, is_running, loop_tasks, agents_to_run, permits,
                   pipevars, fetch_failures, statvars, call_result>>

----------------------------------------------------------------------------
(* Requests from outside *)

\* pause_agent(agent_id): _update_agent_status(agent_id, "paused")
PauseAgent(a) ==
    /\ status' = [status EXCEPT ![a] = "paused"]
    /\ UNCHANGED <<now, rlvars, evvars, dpvars, schedule_interval, last_run_at, next_run_at,
                   error_count, last_error, loopvars, pipevars, fetch_failures, statvars, call_result>>

\* resume_agent(agent_id): _update_agent_status(agent_id, "active")
ResumeAgent(a) ==
    /\ status' = [status EXCEPT ![a] = "active"]
    /\ UNCHANGED <<now, rlvars, evvars, dpvars, schedule_interval, last_run_at, next_run_at,
                   error_count, last_error, loopvars, pipevars, fetch_failures, statvars, call_result>>

\* the AgentUpdate bodies sent: one field set, the other not in the request
\* ("unset" / None)
UpdateRequests ==
    {<<st, None>> : st \in Statuses} \cup {<<"unset", iv>> : iv \in ScheduleIntervals}

\* PATCH /{agent_id}: the fields that are set in AgentUpdate are written
UpdateAgent(a, st, iv) ==
    /\ st # "unset" \/ iv # None
    /\ status' = IF st # "unset" THEN [status EXCEPT ![a] = st] ELSE status
    /\ schedule_interval' = IF iv # None
                            THEN [schedule_interval EXCEPT ![a] = iv]
                            ELSE schedule_interval
    /\ UNCHANGED <<now, rlvars, evvars, dpvars, last_run_at, next_run_at, error_count,
                   last_error, loopvars, pipevars, fetch_failures, statvars, call_result>>

\* the clock advances
Tick ==
    /\ now + SchedClockStep <= SchedMaxTime
    /\ now' = now + SchedClockStep
    /\ UNCHANGED <<rlvars, schedvars, evvars, dpvars>>

\* the executor's state when no plan has been executed
InitExecutor ==
    /\ ev_plan = <<>>
    /\ ev_data = <<>>
    /\ ev_alerts = <<>>
    /\ ev_cycle = 0
    /\ ev_previous = <<>>

\* the limiter's state when nothing has called it
InitLimiter ==
    /\ enable_rate_limiting = TRUE
    /\ request_times = [s \in Services |-> <<>>]
    /\ locks = [s \in Services |-> "free"]
    /\ rl_pc = [c \in Callers |-> "idle"]
    /\ rl_svc = [c \in Callers |-> "bitscrunch"]
    /\ rl_ct = [c \in Callers |-> 0]
    /\ rl_wake = [c \in Callers |-> None]
    /\ rl_calls = 0
    /\ rl_history = [s \in Services |-> <<>>]
    /\ rl_remaining = NoAnswer

\* the steps of the pipelines
PipelineStep ==
    \/ \E p \in Pipes : BeginScheduled(p)
    \/ \E p \in Pipes : RunTimeCommit(p)
    \/ \E p \in Pipes, o \in Outcomes, k \in 1..MaxEvents : Execute(p, o, k)
    \/ \E p \in Pipes, o \in AlertOutcomes :
          \E d \in Deliveries(p_events[p]), binds \in BOOLEAN :
              HandleAlerts(p, o, d, binds)
    \/ \E p \in Pipes : ResetErrorCount(p)
    \/ \E p \in Pipes : IncrementErrorCount(p)
    \/ \E p \in Pipes : IncrementFails(p)

\* the steps of start(), stop() and the loop
LoopStep ==
    \/ Start
    \/ Stop
    \/ SelectAgents
    \/ CycleDone
    \/ LoopWake

\* the requests from outside
RequestStep ==
    \/ \E p \in ManualPipes, a \in Addressed : RunAgentOnce(p, a)
    \/ \E a \in Addressed : PauseAgent(a)
    \/ \E a \in Addressed : ResumeAgent(a)
    \/ \E a \in Addressed, r \in UpdateRequests : UpdateAgent(a, r[1], r[2])

(* Spec: one agent under the scheduler and under requests from outside,    *)
(* the other agents paused.                                                *)
Init ==
    /\ now = 0
    /\ InitLimiter
    /\ InitAgents(Addressed)
    /\ InitScheduler({})
    /\ InitExecutor
    /\ InitDeploy
    /\ InitStats(FALSE)

Next ==
    \/ LoopStep
    \/ PipelineStep
    \/ RequestStep
    \/ Tick

Spec == Init /\ [][Next]_vars

(* SpecControl: Spec without the PATCH requests: the scheduler, manual     *)
(* runs, pause_agent and resume_agent.                                     *)
ControlStep ==
    \/ \E p \in ManualPipes, a \in Addressed : RunAgentOnce(p, a)
    \/ \E a \in Addressed : PauseAgent(a)
    \/ \E a \in Addressed : ResumeAgent(a)

NextControl ==
    \/ LoopStep
    \/ PipelineStep
    \/ ControlStep
    \/ Tick

SpecControl == Init /\ [][NextControl]_vars

(* SpecStats: the scheduler alone over the wallet agents, with its         *)
(* statistics, the alerts table and the results of the calls followed.     *)
WalletAgents == {a \in Agents : action_type(a) = "wallet_monitor"}

InitFollowed ==
    /\ now = 0
    /\ InitLimiter
    /\ InitAgents(WalletAgents)
    /\ InitScheduler({})
    /\ InitExecutor
    /\ dp_plan = <<>>
    /\ dp_response = "none"
    /\ dp_agent = <<>>
    /\ dp_result = "none"
    /\ InitStats(TRUE)

NextStats ==
    \/ LoopStep
    \/ PipelineStep
    \/ RunAgentOnceMissing
    \/ Tick

SpecStats == InitFollowed /\ [][NextStats]_vars

(* SpecCycle: every agent active, the scheduler alone.                     *)
InitCycle ==
    /\ now = 0
    /\ InitLimiter
    /\ InitAgents(Agents)
    /\ InitScheduler(Agents)
    /\ InitExecutor
    /\ InitDeploy
    /\ InitStats(FALSE)

NextCycle ==
    \/ LoopStep
    \/ PipelineStep
    \/ Tick

SpecCycle == InitCycle /\ [][NextCycle]_vars

----------------------------------------------------------------------------
(* ToolExecutor: the condition loop of _execute_wallet_monitoring *)

\* token_names, in the order _check_wallet_condition goes through them
TokenNames == <<"ETH", "USDT", "USDC">>
\* value_native of a fetched transfer
Amounts == {3, 7, 12}
\* condition["value"], as float(value)
Thresholds == {5}
\* the side of a transfer the monitored wallet is on
Roles == {"sender", "receiver"}

\* one entry of a token's transfers_data, tagged with the token it was
\* fetched for
Transfers == [token : {"ETH", "USDT", "USDC"}, role : Roles, value_native : Amounts]

\* what the token fetches of one cycle return, in the order received (a
\* fetch that failed leaves its token without entries)
FetchedData == UNION {[1..n -> Transfers] : n \in 0..MaxTransfers}

\* a condition of the plan; the operators are those the parser's prompt
\* offers for a numeric value
Conditions ==
    [type : {"threshold"},
     parameter : {"outgoing_transfer", "incoming_transfer"},
     operator : {"gt", "lt", "eq"},
     value : Thresholds]

\* structured_plan["conditions"]: a non-empty list
Plans == UNION {[1..n -> Conditions] : n \in 1..MaxConditions}

\* data.get(f"{token_name}_transfers", {}).get("data", [])
TransfersOf(data, token_name) ==
    SelectSeq(data, LAMBDA tr : tr.token = token_name)

\* the inner loop: the first transfer of the list on the given side whose
\* amount passes the test, as a list of at most one
RECURSIVE FirstTransfer(_, _, _, _)
FirstTransfer(trs, role, operator, threshold) ==
    IF trs = <<>> THEN <<>>
    ELSE IF /\ Head(trs).role = role
            /\ operator = "gt"
            /\ Head(trs).value_native > threshold
         THEN <<Head(trs)>>
         ELSE FirstTransfer(Tail(trs), role, operator, threshold)

\* the outer loop over token_names from the i-th on
RECURSIVE FirstOverTokens(_, _, _, _, _)
FirstOverTokens(i, data, role, operator, threshold) ==
    IF i > Len(TokenNames) THEN <<>>
    ELSE LET m == FirstTransfer(TransfersOf(data, TokenNames[i]), role,
                                operator, threshold)
         IN IF m # <<>> THEN m
            ELSE FirstOverTokens(i + 1, data, role, operator, threshold)

\* a severity that never escalates
OutgoingSeverity_NeverHigh(amount, threshold) == "medium"

\* "severity" of a wallet_threshold_exceeded alert
OutgoingSeverity(amount, threshold) ==
    IF amount > threshold * 2 THEN "high" ELSE "medium"

\* _check_wallet_condition: the alert of the condition as a list of at most
\* one (empty: None)
check_wallet_condition(condition, data) ==
    IF condition.parameter = "outgoing_transfer" /\ condition.type = "threshold"
    THEN LET m == FirstOverTokens(1, data, "sender", condition.operator,
                                  condition.value)
         IN IF m = <<>> THEN <<>>
            ELSE <<[type |-> "wallet_threshold_exceeded",
                    severity |-> OutgoingSeverity(m[1].value_native,
                                                  condition.value),
                    amount |-> m[1].value_native,
                    threshold |-> condition.value,
                    token |-> m[1].token]>>
    ELSE IF condition.parameter = "incoming_transfer"
            /\ condition.type = "threshold"
         THEN LET m == FirstOverTokens(1, data, "receiver", condition.operator,
                                       condition.value)
              IN IF m = <<>> THEN <<>>
                 ELSE <<[type |-> "wallet_large_incoming",
                         severity |-> "medium",
                         amount |-> m[1].value_native,
                         threshold |-> condition.value,
                         token |-> m[1].token]>>
         ELSE <<>>

\* the condition loop cut short at the first alert
RECURSIVE CheckConditions_FirstOnly(_, _)
CheckConditions_FirstOnly(conditions, data) ==
    IF conditions = <<>> THEN <<>>
    ELSE IF check_wallet_condition(Head(conditions), data) # <<>>
         THEN check_wallet_condition(Head(conditions), data)
         ELSE CheckConditions_FirstOnly(Tail(conditions), data)

\* for condition in conditions: alert = ...; if alert: alerts.append(alert)
RECURSIVE CheckConditions(_, _)
CheckConditions(conditions, data) ==
    IF conditions = <<>> THEN <<>>
    ELSE check_wallet_condition(Head(conditions), data)
            \o CheckConditions(Tail(conditions), data)

\* _execute_wallet_monitoring for the agent: the fetches return `data`, the
\* conditions are checked against it; results is returned to _process_agent,
\* which reads its success flag and its alerts and keeps nothing of its data
ExecuteWalletMonitoring(data) ==
    /\ ev_cycle < MaxCycles
    /\ ev_data' = data
    /\ ev_alerts' = CheckConditions(ev_plan, data)
    /\ ev_cycle' = ev_cycle + 1
    /\ UNCHANGED <<now, rlvars, schedvars, dpvars, ev_plan, ev_previous>>

(* SpecEval: the executor alone, over the plans of a wallet agent.          *)
InitEval ==
    /\ now = 0
    /\ InitLimiter
    /\ InitAgents(Agents)
    /\ InitScheduler({})
    /\ ev_plan \in Plans
    /\ ev_data = <<>>
    /\ ev_alerts = <<>>
    /\ ev_cycle = 0
    /\ ev_previous = <<>>
    /\ InitDeploy
    /\ InitStats(FALSE)

NextEval ==
    /\ ev_cycle < MaxCycles
    /\ \E data \in FetchedData : ExecuteWalletMonitoring(data)

SpecEval == InitEval /\ [][NextEval]_vars

\* the next execute_plan call that reports only what the last one did not
ExecuteSameData_SkipsReported ==
    /\ ev_cycle \in 1..MaxCycles
    /\ ev_alerts' = SelectSeq(CheckConditions(ev_plan, ev_data),
                              LAMBDA al : \A i \in 1..Len(ev_alerts) :
                                              ev_alerts[i] # al)
    /\ ev_cycle' = ev_cycle + 1
    /\ UNCHANGED <<now, rlvars, schedvars, dpvars, ev_plan, ev_data,
                   ev_previous>>

\* the agent's next execute_plan call, whose fetches return what the last
\* ones returned: the conditions are checked against that data again
ExecuteSameData ==
    /\ ev_cycle \in 1..MaxCycles
    /\ ev_alerts' = CheckConditions(ev_plan, ev_data)
    /\ ev_cycle' = ev_cycle + 1
    /\ UNCHANGED <<now, rlvars, schedvars, dpvars, ev_plan, ev_data,
                   ev_previous>>

(* SpecRepeat: the executor alone, followed by one more cycle over the     *)
(* data of its last cycle.                                                 *)
NextRepeat ==
    \/ NextEval
    \/ ExecuteSameData

SpecRepeat == InitEval /\ [][NextRepeat]_vars

----------------------------------------------------------------------------
(* deploy_agent: parse_mission, _validate_plan and the row it creates *)

\* valid_action_types of _validate_plan
ValidActionTypes ==
    {"wallet_monitor", "nft_monitor", "collection_monitor", "transaction_monitor"}
\* the action types execute_plan routes to an executor
ExecutorActionTypes == {"wallet_monitor", "collection_monitor", "nft_monitor"}

\* what _extract_json_from_response returns for a deploy request:
\*   extracted   FALSE when it returns None (no JSON in the response)
\*   complete    the five required fields are in the plan
\*   action_type plan["action_type"]
\*   blockchain  plan["blockchain"]
\*   target_type / target_address  "type" / "address" is in plan["target"]
\*   conditions  per condition, whether it has its four required fields
ParsedPlans ==
    [extracted : {TRUE},
     complete : BOOLEAN,
     action_type : ValidActionTypes \cup {"token_monitor"},
     blockchain : {"ethereum", "bitcoin"},
     target_type : BOOLEAN,
     target_address : BOOLEAN,
     conditions : {<<>>, <<TRUE>>, <<FALSE>>}]
    \cup
    [extracted : {FALSE}, complete : {FALSE}, action_type : {"token_monitor"},
     blockchain : {"bitcoin"}, target_type : {FALSE}, target_address : {FALSE},
     conditions : {<<>>}]

\* plan["blockchain"] in SUPPORTED_BLOCKCHAINS
SupportedBlockchain(blockchain) == blockchain = "ethereum"

\* _validate_plan(plan)["valid"]
validate_plan(plan) ==
    /\ plan.complete
    /\ plan.action_type \in ValidActionTypes
    /\ SupportedBlockchain(plan.blockchain)
    /\ plan.target_type
    /\ Len(plan.conditions) # 0
    /\ \A i \in 1..Len(plan.conditions) : plan.conditions[i]

\* parse_mission(...).success: a plan was extracted and is valid
parse_mission(plan) == plan.extracted /\ validate_plan(plan)

\* execute_plan(plan)["success"] when every fetch returns and no condition
\* check raises: an action type without executor raises ValueError, an
\* executor reads target["address"] before anything else
PlanExecutes(plan) ==
    /\ plan.action_type \in ExecutorActionTypes
    /\ plan.target_address

\* POST /deploy: the mission is parsed; a failed parse is answered with
\* success = False and no row, otherwise the Agent row is committed with
\* the plan and status active
DeployAgent(plan) ==
    /\ dp_response = "none"
    /\ dp_plan' = <<plan>>
    /\ IF parse_mission(plan)
       THEN dp_response' = "deployed" /\ dp_agent' = <<plan>>
       ELSE dp_response' = "failed" /\ dp_agent' = dp_agent
    /\ UNCHANGED <<now, rlvars, schedvars, evvars, dp_result>>

\* the first cycle of the deployed agent: _process_agent calls
\* execute_plan(agent.structured_plan); success = False takes the cycle to
\* _increment_agent_error_count
ExecuteDeployed ==
    /\ dp_agent # <<>>
    /\ dp_result = "none"
    /\ dp_result' = IF PlanExecutes(dp_agent[1]) THEN "success" ELSE "plan_error"
    /\ UNCHANGED <<now, rlvars, schedvars, evvars, dp_plan, dp_response, dp_agent>>

(* SpecDeploy: one deploy request and the first cycle of its agent.        *)
InitDeployed ==
    /\ now = 0
    /\ InitLimiter
    /\ InitAgents(Agents)
    /\ InitScheduler({})
    /\ InitExecutor
    /\ InitDeploy
    /\ InitStats(FALSE)

NextDeploy ==
    \/ \E plan \in ParsedPlans : DeployAgent(plan)
    \/ ExecuteDeployed

SpecDeploy == InitDeployed /\ [][NextDeploy]_vars

----------------------------------------------------------------------------
(* SpecHour: the limiter of a process that has called acquire("gemini")    *)
(* GeminiPerHour times in the last hour, with the clock's origin at the    *)
(* last of these calls: first every 2 seconds, then, 64 seconds after the  *)
(* last of those, GeminiPerMinute - 1 calls one second apart.  No call had *)
(* GeminiPerMinute timestamps of the last minute before it, so none slept. *)

\* the timestamps these calls recorded, oldest first
GeminiCallTimes ==
    LET burst == GeminiPerMinute - 1
        spaced == GeminiPerHour - burst
    IN [i \in 1..GeminiPerHour |->
           IF i <= spaced
           THEN -(burst - 1) - (MinuteWindow + 4) - 2 * (spaced - i)
           ELSE i - GeminiPerHour]

\* the deque after the last call: its purge dropped what was older than
\* MinuteWindow
GeminiDeque ==
    SelectSeq(GeminiCallTimes, LAMBDA t : t >= -MinuteWindow)

InitHour ==
    /\ now = 0
    /\ enable_rate_limiting = TRUE
    /\ request_times =
          [s \in Services |-> IF s = "gemini" THEN GeminiDeque ELSE <<>>]
    /\ locks = [s \in Services |-> "free"]
    /\ rl_pc = [c \in Callers |-> "idle"]
    /\ rl_svc = [c \in Callers |-> "bitscrunch"]
    /\ rl_ct = [c \in Callers |-> 0]
    /\ rl_wake = [c \in Callers |-> None]
    /\ rl_calls = 0
    /\ rl_history =
          [s \in Services |-> IF s = "gemini" THEN GeminiCallTimes ELSE <<>>]
    /\ rl_remaining = NoAnswer
    /\ InitAgents(Agents)
    /\ InitScheduler({})
    /\ InitExecutor
    /\ InitDeploy
    /\ InitStats(FALSE)

NextHour ==
    \/ \E c \in Callers : RLAcquire(c, "gemini")
    \/ \E c \in Callers : RLEnter(c)
    \/ \E c \in Callers : RLWake(c)
    \/ RLTick

SpecHour == InitHour /\ [][NextHour]_vars

(* SpecBurst: callers of acquire("bitscrunch") on a new limiter with rate  *)
(* limiting enabled.  The event loop runs a task whose sleep is over, and   *)
(* the clock advances.                                                      *)
InitBurst == InitRate /\ enable_rate_limiting = TRUE

NextBurst ==
    \/ \E c \in Callers : RLAcquire(c, "bitscrunch")
    \/ \E c \in Callers : RLEnter(c)
    \/ \E c \in Callers : RLWake(c)
    \/ RLTick

SpecBurst ==
    /\ InitBurst
    /\ [][NextBurst]_vars
    /\ WF_vars(RLTick)
    /\ \A c \in Callers : WF_vars(RLWake(c))

(* SpecQuery: SpecBurst with get_remaining_requests called at any time.    *)
NextQuery ==
    \/ NextBurst
    \/ \E s \in Services : RLGetRemaining(s)

SpecQuery == InitBurst /\ [][NextQuery]_vars

----------------------------------------------------------------------------
(* Claims about the rate limiter *)

\* number of recorded timestamps t of service s with lo <= t <= hi
RecordedIn(s, lo, hi) ==
    Cardinality({i \in 1..Len(request_times[s]) :
                    request_times[s][i] >= lo /\ request_times[s][i] <= hi})

\* C1: for every service with a per-minute maximum, the number of recorded
\* consumption timestamps t with now - window <= t <= now (the trailing
\* window get_remaining_requests counts) never exceeds that maximum.
C1_TrailingMinuteWithinLimit ==
    \A s \in Services :
        limits(s).per_minute # 0 =>
            RecordedIn(s, now - MinuteWindow, now) <= limits(s).per_minute

\* the same count over the half-open window now - window < t <= now
RL_OpenWindowWithinLimit ==
    \A s \in Services :
        limits(s).per_minute # 0 =>
            RecordedIn(s, now - MinuteWindow + 1, now) <= limits(s).per_minute

----------------------------------------------------------------------------
(* Claims about the scheduler *)

\* _process_agent has started for the pipeline and has not returned
Running(p) == p_pc[p] \in {"rt_write", "execute", "alerts", "reset", "inc_write"}

\* the step of a cycle that makes the selection
SelectStep == loop_pc = "select" /\ loop_pc' \in {"gather", "sleep"}

\* the step writes to the row of agent a
RowWritten(a) ==
    \/ status'[a] # status[a]
    \/ error_count'[a] # error_count[a]
    \/ last_error'[a] # last_error[a]

\* the step in which _process_agent returns success / failure for p, its
\* lifecycle update committed
SuccessStep(p) ==
    p_pc[p] = "reset" /\ p_pc'[p] = "idle" /\ is_running' = is_running
FailStep(p) ==
    /\ p_pc[p] = "inc_write" /\ p_pc'[p] = "idle" /\ is_running' = is_running
    /\ RowWritten(p_agent[p])

\* the step in which stop() cancels the tasks of the cycle
CancelStep == is_running /\ ~is_running'

\* C2: the number of pipelines started by the scheduler loop and not yet
\* finished never exceeds MAX_CONCURRENT_AGENTS.
C2_AtMostMaxConcurrent ==
    Cardinality({p \in SchedPipes : Running(p)}) <= MaxConcurrentAgents

\* the limit binds: as many pipelines run as there are permits while
\* another task of the cycle waits
C2_Witness ==
    /\ Cardinality({p \in SchedPipes : Running(p)}) = MaxConcurrentAgents
    /\ \E p \in SchedPipes : p_pc[p] = "wait_sem"

\* C3: at no instant are two pipeline executions in flight for the same
\* agent, whether started by the loop or by run_agent_once.
C3_OnePipelinePerAgent ==
    \A p, q \in Pipes :
        (p # q /\ Running(p) /\ Running(q)) => p_agent[p] # p_agent[q]

\* C4: a cycle's selection is exactly the agents that, at the query, are
\* active, have never run or have next_run_at <= now, and have
\* error_count < max_retries; no paused or error agent is ever selected.
C4_SelectionExact ==
    [][SelectStep =>
          /\ \A a \in Agents :
                a \in agents_to_run' <=>
                    /\ status[a] = "active"
                    /\ (last_run_at[a] = None \/ next_run_at[a] \in 0..now)
                    /\ error_count[a] < MaxRetries
          /\ \A a \in agents_to_run' : status[a] \notin {"paused", "error"}]_vars

\* an agent that has run before is selected again and waits for a permit,
\* while a paused agent is left out
C4_Witness ==
    /\ \E a \in agents_to_run : p_pc[a] = "wait_sem" /\ last_run_at[a] # None
    /\ \E b \in Agents : status[b] = "paused" /\ b \notin agents_to_run

\* C5: when the fetch of an agent (max_retries = 3) has failed in three
\* consecutive cycles, the agent's status is error after the third, and
\* the agent is in no later selection.
C5_ThreeFetchFailuresThenError ==
    [][/\ \A p \in Pipes :
             ((SuccessStep(p) \/ FailStep(p))
                 /\ fetch_failures'[p_agent[p]] = MaxRetries)
             => status'[p_agent[p]] = "error"
       /\ SelectStep =>
             \A a \in agents_to_run' : fetch_failures[a] # MaxRetries]_vars

\* C6: an agent whose error_count has reached max_retries is in no
\* selection until it is reset from outside; the reset (its status set
\* back to active) leaves error_count = 0.
C6_ResetClearsErrorCount ==
    [][/\ SelectStep =>
             \A a \in agents_to_run' : error_count[a] < MaxRetries
       /\ \A a \in Agents :
             (/\ error_count[a] >= MaxRetries
              /\ status[a] # "active" /\ status'[a] = "active"
              /\ p_pc' = p_pc)
             => error_count'[a] = 0]_vars

\* C7: a failed cycle increases error_count by exactly 1 and records
\* last_error; the status becomes error when the new count >= max_retries
\* and is left as it is otherwise.
C7_FailureCountsOnce ==
    [][\A p \in Pipes :
          FailStep(p) =>
              LET a == p_agent[p] IN
              /\ error_count'[a] = error_count[a] + 1
              /\ last_error'[a] = "error"
              /\ status'[a] = IF error_count'[a] >= MaxRetries
                              THEN "error" ELSE status[a]]_vars

C10_NextRunAfterInterval ==
    \A a \in Agents :
        last_run_at[a] # None =>
            next_run_at[a] >= last_run_at[a] + schedule_interval[a]

\* the step in which a pipeline ends in failure: the error-count update
\* commits or raises
EndsInFailure(p) ==
    p_pc[p] = "inc_write" /\ p_pc'[p] = "idle" /\ is_running' = is_running

\* the step in which the scheduler loop exits
LoopExits == loop_pc # "stopped" /\ loop_pc' = "stopped"

\* the step in which _process_agent starts for the pipeline
StartsRunning(p) == ~Running(p) /\ p_pc'[p] = "rt_write"

\* C11: a pipeline that ends in failure, also when recording the failure
\* itself fails, gives its permit back, changes no other pipeline and no
\* other agent's row, and leaves the loop where it is; the loop exits only
\* by stop().
C11_FailureIsIsolated ==
    /\ [](permits + Cardinality({p \in SchedPipes : HoldsPermit(p)})
             = MaxConcurrentAgents)
    /\ [][/\ \A p \in Pipes :
                EndsInFailure(p) =>
                    /\ loop_pc' = loop_pc
                    /\ agents_to_run' = agents_to_run
                    /\ \A q \in Pipes \ {p} :
                          p_pc'[q] = p_pc[q] /\ p_alerts'[q] = p_alerts[q]
                    /\ \A a \in Agents \ {p_agent[p]} :
                          /\ status'[a] = status[a]
                          /\ error_count'[a] = error_count[a]
                          /\ next_run_at'[a] = next_run_at[a]
          /\ LoopExits => CancelStep]_vars

\* one agent has failed its cycle, another has finished its own without
\* error, and the loop has gone on to its sleep
C11_Witness ==
    /\ is_running /\ loop_pc = "sleep"
    /\ \E a, b \in Agents :
          /\ error_count[a] > 0 /\ last_error[a] = "error"
          /\ last_run_at[b] # None /\ error_count[b] = 0
          /\ last_error[b] = "null"

\* C12: when the scheduler loop exits on stop(), no pipeline it started is
\* in flight: each has run to its lifecycle update, none is cancelled.
C12_StopLetsPipelinesFinish ==
    [][LoopExits => \A p \in SchedPipes : ~Running(p)]_vars

\* C13: after stop() the loop makes no selection and no pipeline of the
\* loop starts or waits to start, until start() is called again.
C13_NoWorkAfterStop ==
    /\ [](~is_running =>
             /\ loop_pc = "stopped"
             /\ \A p \in SchedPipes : p_pc[p] = "idle")
    /\ [][/\ SelectStep => is_running /\ is_running'
          /\ \A p \in SchedPipes : StartsRunning(p) => is_running]_vars

\* the scheduler was stopped in a cycle in which one agent had run and
\* another was still waiting for a permit
C13_Witness ==
    /\ ~is_running
    /\ \E a, b \in Agents :
          /\ last_run_at[a] # None
          /\ last_run_at[b] = None /\ status[b] = "active"

\* what one step of pipeline p does to its agent's row: the run-time
\* update, then the success or the failure update of the lifecycle
PipelineEffect(p) ==
    LET a == p_agent[p] IN
    /\ (p_pc[p] = "rt_write" /\ p_pc'[p] # "rt_write" /\ ~CancelStep) =>
          /\ p_pc'[p] = "execute"
          /\ last_run_at'[a] = p_start[p]
          /\ next_run_at'[a] = p_start[p] + p_interval[p]
    /\ (p_pc[p] = "execute" /\ p_pc'[p] # "execute" /\ ~CancelStep) =>
          p_pc'[p] \in {"alerts", "reset", "inc_write"}
    /\ SuccessStep(p) =>
          error_count'[a] = 0 /\ last_error'[a] = "null"
    /\ FailStep(p) =>
          /\ error_count'[a] = p_err_count[p] + 1
          /\ last_error'[a] = "error"
          /\ status'[a] = IF p_err_count[p] + 1 >= MaxRetries
                          THEN "error" ELSE p_status[p]

\* C14 as stated: a manual run applies the transitions a scheduled run
\* applies, and run_agent_once starts a pipeline only for an agent that is
\* active and below the error ceiling.
C14_ManualRunKeepsSelectionConditions ==
    [][/\ \A p \in Pipes : PipelineEffect(p)
       /\ \A p \in ManualPipes :
             StartsRunning(p) =>
                 /\ status[p_agent'[p]] = "active"
                 /\ error_count[p_agent'[p]] < MaxRetries]_vars

\* C14 as amended: a manual run applies to the agent the transitions a
\* scheduled run applies (run-time update, fetch and evaluation, lifecycle
\* update); run_agent_once bypasses the whole selection, so the agent it
\* runs may have any status, error count and due time.
C14_ManualRunSameTransitions ==
    [][\A p \in Pipes : PipelineEffect(p)]_vars

\* a manual run is in flight for an agent that no selection would take,
\* and has committed its run times
C14_Witness ==
    \E p \in ManualPipes :
        /\ p_pc[p] = "execute"
        /\ status[p_agent[p]] \in {"paused", "error"}
        /\ last_run_at[p_agent[p]] # None

\* C15: a successful manual run of an agent whose status is error (its
\* error_count at the ceiling) leaves error_count = 0 and status = active.
C15_ManualSuccessReactivates ==
    [][\A p \in ManualPipes :
          (/\ SuccessStep(p)
           /\ status[p_agent[p]] = "error"
           /\ error_count[p_agent[p]] >= MaxRetries)
          => /\ error_count'[p_agent[p]] = 0
             /\ status'[p_agent[p]] = "active"]_vars

\* C16: an agent that became triggered is active again by the time it is
\* due: no selection finds an agent that is due and still triggered.
C16_TriggeredReturnsToActive ==
    [][SelectStep =>
          \A a \in Agents :
              ~(/\ status[a] = "triggered"
                /\ next_run_at[a] # None /\ next_run_at[a] <= now)]_vars

\* C17: when every send of a cycle's alerts fails, the alert branch still
\* ends normally: all the events were handed to the dispatcher, the status
\* is triggered, error_count is left alone and the pipeline goes on to its
\* success update.
C17_FailedDeliveryIsNotFailure ==
    [][\A p \in Pipes :
          (/\ p_pc[p] = "alerts" /\ p_pc'[p] # "alerts" /\ ~CancelStep
           /\ p_dispatched'[p] > 0 /\ p_delivered'[p] = 0)
          => /\ p_pc'[p] = "reset"
             /\ p_dispatched'[p] = p_events[p]
             /\ error_count' = error_count
             /\ status'[p_agent[p]] = "triggered"]_vars

\* a pipeline is at its success update after none of its alerts could be
\* delivered
C17_Witness ==
    \E p \in Pipes :
        /\ p_pc[p] = "reset" /\ p_alerts[p] = "handled"
        /\ p_dispatched[p] = p_events[p] /\ p_events[p] = MaxEvents
        /\ p_delivered[p] = 0

\* C18: the alert branch of a cycle with k >= 1 alert events hands each of
\* the k events to the dispatcher once and sets the status to triggered.
C18_EveryEventDispatched ==
    [][\A p \in Pipes :
          (p_pc[p] = "alerts" /\ p_pc'[p] # "alerts" /\ ~CancelStep)
          => /\ p_dispatched'[p] = p_events[p]
             /\ status'[p_agent[p]] = "triggered"]_vars

\* condition c fires on the fetched data: some transfer of the side the
\* parameter names passes the condition's test
Fires(c, data) ==
    \E i \in 1..Len(data) :
        /\ data[i].role = IF c.parameter = "outgoing_transfer"
                          THEN "sender" ELSE "receiver"
        /\ c.operator = "gt"
        /\ data[i].value_native > c.value

\* the conditions of the plan that fire on the data, in plan order
FiringConditions(plan, data) ==
    SelectSeq(plan, LAMBDA c : Fires(c, data))

\* the alert type of a parameter
AlertTypeOf(parameter) ==
    IF parameter = "outgoing_transfer"
    THEN "wallet_threshold_exceeded" ELSE "wallet_large_incoming"

\* C19: the alert list of a cycle has one event for each condition of the
\* plan that fires on the fetched data, in plan order, whether or not an
\* earlier condition fired; whether a condition fires depends on that
\* condition and the data alone.
C19_OneAlertPerFiringCondition ==
    ev_cycle > 0 =>
        LET firing == FiringConditions(ev_plan, ev_data) IN
        /\ Len(ev_alerts) = Len(firing)
        /\ \A j \in 1..Len(firing) :
              /\ ev_alerts[j].type = AlertTypeOf(firing[j].parameter)
              /\ ev_alerts[j].threshold = firing[j].value

\* two conditions of one plan fired in the same cycle
C19_Witness ==
    /\ ev_cycle > 0
    /\ Len(ev_plan) >= 2
    /\ Len(ev_alerts) >= 2
    /\ ev_alerts[1].type # ev_alerts[2].type

\* C20: in the first cycle of an agent, which has no previous snapshot, no
\* condition on an outgoing or incoming transfer total fires, whatever was
\* fetched.
C20_FirstCycleNeverFires ==
    ev_cycle = 1 => ev_alerts = <<>>

\* C21: after every successful cycle the data kept for the target as its
\* previous snapshot is the data that cycle fetched.
C21_SnapshotReplacedOnSuccess ==
    ev_cycle > 0 => ev_previous = <<ev_data>>

\* C22: a threshold condition fires if and only if a transfer observed on
\* the side its parameter names stands in the relation its operator names
\* to its value: greater for gt, less for lt, equal for eq.
C22_FiresIffRelationHolds ==
    ev_cycle > 0 =>
        LET stands(c, tr) ==
                /\ tr.role = IF c.parameter = "outgoing_transfer"
                             THEN "sender" ELSE "receiver"
                /\ CASE c.operator = "gt" -> tr.value_native > c.value
                     [] c.operator = "lt" -> tr.value_native < c.value
                     [] c.operator = "eq" -> tr.value_native = c.value
            due == {i \in 1..Len(ev_plan) :
                       \E j \in 1..Len(ev_data) : stands(ev_plan[i], ev_data[j])}
        IN Len(ev_alerts) = Cardinality(due)

\* the order of the severity tiers
SeverityRank(severity) == IF severity = "high" THEN 2 ELSE 1

\* C23 as stated: among the alerts of a cycle, one whose value is the
\* larger multiple of its threshold never has the lower severity, and every
\* alert whose value is above twice its threshold has the escalated tier.
C23_AboveTwiceEscalates ==
    ev_cycle > 0 =>
        \A i, j \in 1..Len(ev_alerts) :
            LET a == ev_alerts[i]
                b == ev_alerts[j]
            IN /\ (a.type = b.type
                     /\ a.amount * b.threshold >= b.amount * a.threshold)
                  => SeverityRank(a.severity) >= SeverityRank(b.severity)
               /\ a.amount > 2 * a.threshold => a.severity = "high"

\* C23 as amended: the severity of an outgoing-transfer alert is high when
\* its value is above twice the threshold and medium otherwise, a step
\* function that never decreases in value/threshold; the severity of an
\* incoming-transfer alert is medium whatever its value.
C23_SeverityStepFunction ==
    ev_cycle > 0 =>
        \A i, j \in 1..Len(ev_alerts) :
            LET a == ev_alerts[i]
                b == ev_alerts[j]
            IN /\ (a.type = b.type
                     /\ a.amount * b.threshold >= b.amount * a.threshold)
                  => SeverityRank(a.severity) >= SeverityRank(b.severity)
               /\ a.type = "wallet_threshold_exceeded" =>
                     (a.severity = "high" <=> a.amount > 2 * a.threshold)
               /\ a.type = "wallet_large_incoming" => a.severity = "medium"

\* one cycle raised an escalated outgoing alert and an incoming alert whose
\* value is also above twice its threshold
C23_Witness ==
    /\ ev_cycle > 0
    /\ \E i, j \in 1..Len(ev_alerts) :
          /\ ev_alerts[i].type = "wallet_threshold_exceeded"
          /\ ev_alerts[i].severity = "high"
          /\ ev_alerts[j].type = "wallet_large_incoming"
          /\ ev_alerts[j].amount > 2 * ev_alerts[j].threshold

\* C24: a cycle whose external fetch fails takes the failure path, where
\* the agent's error_count is incremented, and the fetch is not tried again
\* within that cycle.
C24_FetchErrorFailsCycle ==
    [][\A p \in Pipes :
          /\ (p_pc[p] = "execute" /\ p_fetch_failed'[p]) =>
                /\ p_pc'[p] = "inc_write"
                /\ p_err_count'[p] = error_count[p_agent[p]]
          /\ (p_pc[p] # "execute" /\ p_pc'[p] = "execute") =>
                p_pc[p] = "rt_write"]_vars

\* C25: a deploy request whose plan is malformed or cannot be run by the
\* executor is answered with a failure and creates no Agent row, and no
\* deployed agent fails a cycle because of its plan.
C25_UnsupportedPlanRejected ==
    /\ dp_response = "failed" => dp_agent = <<>>
    /\ (dp_plan # <<>> /\ ~(validate_plan(dp_plan[1]) /\ PlanExecutes(dp_plan[1])))
          => dp_response = "failed"
    /\ dp_result # "plan_error"

\* C26: a selection made at or after the next_run_at of an agent that is
\* active and below the error ceiling gives the agent a task of that cycle;
\* the task leaves its wait only by starting the agent's pipeline (or by
\* stop()), the cycle ends only when every task of it is done, and a
\* pipeline starts only from a task, of which a cycle makes one per agent.
C26_DueAgentRunsOncePerCycle ==
    [][/\ SelectStep =>
             \A a \in Agents :
                 (/\ status[a] = "active"
                  /\ error_count[a] < MaxRetries
                  /\ (last_run_at[a] = None \/ next_run_at[a] \in 0..now))
                 => (a \in agents_to_run' /\ p_pc'[a] = "wait_sem")
       /\ \A p \in SchedPipes :
             /\ (p_pc[p] = "wait_sem" /\ p_pc'[p] # "wait_sem") =>
                   (StartsRunning(p) \/ CancelStep)
             /\ StartsRunning(p) => p_pc[p] = "wait_sem"
             /\ (p_pc[p] # "wait_sem" /\ p_pc'[p] = "wait_sem") =>
                   (SelectStep /\ p_pc[p] = "idle")
       /\ (loop_pc = "gather" /\ loop_pc' # "gather") =>
             (CancelStep \/ \A a \in agents_to_run : p_pc[a] = "idle")]_vars

\* an agent that ran before has a task in the cycle selected at its
\* next_run_at
C26_Witness ==
    \E a \in Agents :
        /\ p_pc[a] = "wait_sem"
        /\ last_run_at[a] # None
        /\ next_run_at[a] = now

\* the timestamps that service s has recorded and that are in the trailing
\* window of w seconds (t >= cutoff), oldest first
RecordedWithin(s, w) == SelectSeq(rl_history[s], LAMBDA t : t >= now - w)

\* the wait a window of w seconds with maximum m asks of a caller of s:
\* w - (now - oldest entry of the window) when the window is at its maximum
RequiredWait(s, w, m) ==
    IF m # 0 /\ Len(RecordedWithin(s, w)) >= m
    THEN w - (now - Head(RecordedWithin(s, w)))
    ELSE 0

\* C27: for a service with a per-minute and a per-hour maximum, no trailing
\* hour holds more recorded consumptions than the per-hour maximum, acquire
\* records only when neither window is at its maximum, and a caller that is
\* suspended is suspended for the longer of the waits the two windows ask.
C27_BothWindowsChecked ==
    /\ [](\A s \in Services :
             limits(s).per_hour # 0 =>
                 Len(RecordedWithin(s, HourWindow)) <= limits(s).per_hour)
    /\ [][\A s \in Services :
             limits(s).per_hour # 0 =>
                 /\ rl_history'[s] # rl_history[s] =>
                       /\ Len(RecordedWithin(s, MinuteWindow))
                             < limits(s).per_minute
                       /\ Len(RecordedWithin(s, HourWindow)) < limits(s).per_hour
                 /\ \A c \in Callers :
                       (rl_pc[c] = "wait_lock" /\ rl_svc[c] = s
                        /\ rl_pc'[c] \in {"sleep_minute", "sleep_hour"}) =>
                          LET mw == RequiredWait(s, MinuteWindow,
                                                 limits(s).per_minute)
                              hw == RequiredWait(s, HourWindow, limits(s).per_hour)
                          IN rl_wake'[c] - now = IF mw > hw THEN mw ELSE hw]_vars

\* C28: on a new limiter with a per-minute maximum of L, the calls that
\* find fewer than L consumptions recorded record at once when they get the
\* lock; the call that makes the (L+1)-th consumption records it only when
\* the oldest one is MinuteWindow old; and a caller suspended until a time
\* the clock reaches completes.
C28_ThirdWaitsForWindow ==
    /\ [](LET h == rl_history["bitscrunch"]
              L == limits("bitscrunch").per_minute
          IN Len(h) > L => h[L + 1] >= h[1] + MinuteWindow)
    /\ [][\A c \in Callers :
             (/\ rl_pc[c] = "wait_lock" /\ rl_pc'[c] # "wait_lock"
              /\ Len(rl_history["bitscrunch"]) < limits("bitscrunch").per_minute)
             => /\ rl_pc'[c] = "idle"
                /\ rl_history'["bitscrunch"]
                      = Append(rl_history["bitscrunch"], now)]_vars
    /\ \A c \in Callers :
          (rl_pc[c] = "sleep_minute" /\ rl_wake[c] <= RateMaxTime)
             ~> (rl_pc[c] = "idle")

\* L calls have recorded at the same time and a further call is suspended
\* until the oldest of them is MinuteWindow old, while another caller waits
\* for the lock
C28_Witness ==
    LET s == "bitscrunch"
        L == limits(s).per_minute
    IN /\ Len(rl_history[s]) = L
       /\ rl_history[s][L] = rl_history[s][1]
       /\ \E c \in Callers :
             /\ rl_pc[c] = "sleep_minute"
             /\ rl_wake[c] = rl_history[s][1] + MinuteWindow

\* C29: with rate limiting disabled, whatever acquire calls have been
\* made, no caller is waiting for a lock or sleeping, no lock is held and no
\* timestamp is recorded for any service.
C29_DisabledAcquireIsNoOp ==
    ~enable_rate_limiting =>
        /\ \A c \in Callers : rl_pc[c] = "idle" /\ rl_wake[c] = None
        /\ \A s \in Services :
              /\ locks[s] = "free"
              /\ request_times[s] = <<>>
              /\ rl_history[s] = <<>>

\* acquire has been called with rate limiting disabled
C29_Witness ==
    ~enable_rate_limiting /\ rl_calls = MaxAcquires

\* C30: a step in which get_remaining_requests returns leaves every
\* service's recorded timestamps, every lock and every caller of acquire as
\* they are, so that an acquire after it finds what it would have found
\* without it; and the timestamps change only in a step of an acquire.
C30_QueryLeavesRecords ==
    [][/\ rl_remaining' # rl_remaining =>
             /\ request_times' = request_times
             /\ rl_history' = rl_history
             /\ locks' = locks
             /\ rl_pc' = rl_pc /\ rl_svc' = rl_svc /\ rl_ct' = rl_ct
             /\ rl_wake' = rl_wake /\ rl_calls' = rl_calls
             /\ now' = now
       /\ request_times' # request_times =>
             \E c \in Callers :
                 rl_pc[c] \in {"wait_lock", "sleep_minute", "sleep_hour"}
                    /\ rl_pc'[c] # rl_pc[c]]_vars

\* the query has answered that nothing remains in the minute while the
\* timestamps it counted are still recorded, one of them a window old
C30_Witness ==
    /\ rl_remaining.service = "bitscrunch"
    /\ rl_remaining.per_minute_remaining = 0
    /\ Len(request_times["bitscrunch"]) >= limits("bitscrunch").per_minute
    /\ request_times["bitscrunch"][1] <= now - MinuteWindow

----------------------------------------------------------------------------
(* Claims about repeated evaluation *)

----------------------------------------------------------------------------
(* Claims about the limiter's locks *)

\* the callers that are inside `async with self.locks[s]` for service s
Negotiating(s) ==
    {c \in Callers : rl_svc[c] = s /\ rl_pc[c] \in {"sleep_minute", "sleep_hour"}}

\* C32: per service at most one acquire call is between its capacity check
\* and its record, that call is the holder of the service's lock, and a
\* caller waiting for a service whose lock is free can enter whatever the
\* other services' locks are.
C32_OneNegotiationPerService ==
    /\ \A s \in Services :
          /\ Cardinality(Negotiating(s)) <= 1
          /\ Negotiating(s) = {c \in Callers : locks[s] = c}
    /\ \A c \in Callers :
          (rl_pc[c] = "wait_lock" /\ locks[rl_svc[c]] = "free")
              => ENABLED RLEnter(c)

\* while a caller sleeps inside the bitscrunch lock and the clock has moved
\* on, a second caller is kept waiting for that lock
C32_Witness ==
    \E c \in Callers, d \in Callers :
        /\ c \in Negotiating("bitscrunch")
        /\ now > rl_ct[c]
        /\ rl_pc[d] = "wait_lock" /\ rl_svc[d] = "bitscrunch"

----------------------------------------------------------------------------
(* Claims about the cycle *)

\* C33: the tasks of a cycle are made for the agents its one selection
\* query returned, and for no others: agents_to_run is written by the
\* selection and cleared when the cycle ends, a task is made only by the
\* selection and only for an agent the query returned, and the loop starts
\* a pipeline only from such a task.
C33_CycleSetFixedBySelection ==
    [][/\ agents_to_run' # agents_to_run =>
             \/ SelectStep /\ agents_to_run' = GetAgentsToRun(now)
             \/ agents_to_run' = {}
       /\ \A p \in SchedPipes :
             /\ (p_pc[p] # "wait_sem" /\ p_pc'[p] = "wait_sem") =>
                   (SelectStep /\ p \in GetAgentsToRun(now))
             /\ StartsRunning(p) =>
                   (p_pc[p] = "wait_sem" /\ p \in agents_to_run)]_vars

\* an agent that was not selectable at the cycle's query is due while the
\* loop sleeps, and has no task
C33_Witness ==
    \E a \in Agents :
        /\ loop_pc = "sleep"
        /\ now < loop_wake
        /\ last_run_at[a] = None
        /\ a \in GetAgentsToRun(now)
        /\ p_pc[a] = "idle"

\* C34: the cycles of a loop do not overlap: a selection is made with no
\* task of the loop waiting or running, the gather ends only when every
\* task of the cycle is done (or by stop()), it is followed by a sleep of
\* AGENT_CHECK_INTERVAL, and the next selection comes only after that
\* sleep (the first one after start()).
C34_CyclesDoNotOverlap ==
    /\ [](loop_pc \in {"select", "sleep"} =>
              \A p \in SchedPipes : p_pc[p] = "idle")
    /\ [][/\ (loop_pc = "gather" /\ loop_pc' # "gather") =>
                 \/ CancelStep
                 \/ /\ \A a \in agents_to_run : p_pc[a] = "idle"
                    /\ loop_pc' = "sleep"
                    /\ loop_wake' = now + AgentCheckInterval
          /\ (loop_pc # "select" /\ loop_pc' = "select") =>
                 \/ loop_pc = "stopped"
                 \/ loop_pc = "sleep" /\ now >= loop_wake]_vars

\* the selection of a later cycle has been made: an agent processed in an
\* earlier cycle has a task again, a sleep after its run
C34_Witness ==
    \E a \in Agents :
        /\ loop_pc = "gather"
        /\ p_pc[a] \in {"wait_sem", "rt_write"}
        /\ last_run_at[a] # None
        /\ now >= last_run_at[a] + AgentCheckInterval

----------------------------------------------------------------------------
(* Claims about pause and resume *)

\* C35: a paused agent stays paused until a request from outside changes
\* its status: no step of a pipeline writes another status over paused,
\* and the loop starts no pipeline for an agent that is paused.
C35_PausedUntilResumed ==
    [][/\ \A a \in Agents :
             (status[a] = "paused" /\ status'[a] # "paused") =>
                 UNCHANGED pipevars
       /\ \A p \in SchedPipes :
             StartsRunning(p) => status[p_agent[p]] # "paused"]_vars

\* C36: an agent's status is error exactly when its error_count has
\* reached max_retries.
C36_ErrorIffCeilingReached ==
    \A a \in Agents : (status[a] = "error") <=> (error_count[a] >= MaxRetries)

----------------------------------------------------------------------------
(* Claims about the statistics and the calls *)

\* C37: the alerts counted in stats["alerts_generated"] are the alerts
\* whose rows were committed, and a batch that _handle_alerts rolled back
\* handed no alert to the notifier.
C37_CountedAreCommitted ==
    /\ alerts_generated = alerts_committed
    /\ \A p \in Pipes :
          p_alerts[p] \in {"rejected", "unbound"} => p_dispatched[p] = 0

\* C38: the permits of the semaphore are conserved: the free permits and
\* the permits held by scheduled pipelines add up to MAX_CONCURRENT_AGENTS,
\* so that with no scheduled pipeline in flight every permit is free,
\* however the pipelines ended; and no step of a manual run changes the
\* number of free permits.
C38_PermitsConserved ==
    /\ []((\A p \in SchedPipes : ~HoldsPermit(p)) =>
              permits = MaxConcurrentAgents)
    /\ [](permits \in 0..MaxConcurrentAgents)
    /\ [][\A m \in ManualPipes :
              p_pc'[m] # p_pc[m] => permits' = permits]_vars

\* every permit is free after a cycle in which a pipeline has ended in
\* failure, while a manual run is in flight
C38_Witness ==
    /\ \A p \in SchedPipes : ~HoldsPermit(p)
    /\ permits = MaxConcurrentAgents
    /\ loop_pc = "sleep"
    /\ \E a \in Agents : last_error[a] = "error" /\ last_run_at[a] # None
    /\ \E m \in ManualPipes : Running(m)

\* everything but the result of the last call
BesidesResult ==
    <<now, rlvars, evvars, dpvars, storevars, loopvars, pipevars,
      fetch_failures, statvars>>

\* C39: at most one loop task is alive, and is_running is true exactly
\* while one is: start() on a running scheduler and stop() on a stopped
\* one change nothing, and is_running changes only by a start() that
\* creates the loop task and by a stop() that ends it.
C39_StartStopIdempotent ==
    /\ [](/\ loop_tasks \in {0, 1}
          /\ is_running <=> loop_tasks = 1
          /\ is_running <=> loop_pc # "stopped")
    /\ [][/\ (call_result' # call_result /\ call_result' = "already_running")
                 => (is_running /\ UNCHANGED BesidesResult)
          /\ (call_result' # call_result /\ call_result' = "not_running")
                 => (~is_running /\ UNCHANGED BesidesResult)
          /\ is_running' # is_running =>
                 \/ /\ is_running' /\ call_result' = "started"
                    /\ loop_tasks' = loop_tasks + 1
                 \/ /\ ~is_running' /\ call_result' = "stopped"
                    /\ loop_tasks' = loop_tasks - 1]_vars

\* start() was called in the middle of a cycle and the cycle goes on
C39_Witness ==
    /\ call_result = "already_running"
    /\ loop_pc = "gather"
    /\ \E p \in SchedPipes : Running(p)

\* C40: run_agent_once for an id without a row can always be answered, is
\* answered with the failure "Agent not found", and changes nothing else:
\* no agent row, no pipeline, no permit, no statistic, no recorded request.
C40_MissingAgentChangesNothing ==
    /\ [](ENABLED RunAgentOnceMissing)
    /\ [][(call_result' # call_result /\ call_result' = "not_found")
              => UNCHANGED BesidesResult]_vars

\* the call was made while a scheduled pipeline held a permit
C40_Witness ==
    /\ call_result = "not_found"
    /\ permits < MaxConcurrentAgents
    /\ \E p \in SchedPipes : Running(p)

====
